---- MODULE Spec2Model ----
(***************************************************************************)
(* Model of the PodRegistry of string_storage.go: a capacity-bounded map   *)
(* PodName -> PodID with a reverse map PodID -> PodName and a slice that   *)
(* keeps the keys in the order of their last write.                        *)
(*                                                                         *)
(* Every exported method holds pr.mutex for its whole body, so each method *)
(* is one atomic action here.  The pure operators Set, deleteInternal and  *)
(* removeFromKeyOrder compute on a record pr with the fields of the Go     *)
(* struct; the actions apply them to the variables.                        *)
(***************************************************************************)
EXTENDS Integers, Sequences, FiniteSets, TLC

\* ------------------------------------------------------------------ bounds

\* Largest capacity a registry of the model is constructed with.
MaxCapacity == 3

\* Number of goroutines that call into one registry and one PodStore at once.
NumProcs == 2

\* ------------------------------------------------------------------- types

\* type PodName struct { Podname, Namespace string }
PodName == [Podname : {"pod1", "pod2"}, Namespace : {"ns1", "ns2"}]

\* type PodID struct { PodUuid, ContainerId string }
PodID == [PodUuid : {"uuid1", "uuid2", "uuid3"}, ContainerId : {"container1"}]

\* Go's zero values of the two structs (what a failed map lookup returns).
ZeroPodName == [Podname |-> "", Namespace |-> ""]
ZeroPodID == [PodUuid |-> "", ContainerId |-> ""]

\* ------------------------------------------------------------ Go built-ins

\* m[k] = v on a Go map.
MapSet(m, k, v) == [x \in (DOMAIN m) \cup {k} |-> IF x = k THEN v ELSE m[x]]

\* delete(m, k) on a Go map: no-op when k is absent.
MapDelete(m, k) == [x \in (DOMAIN m) \ {k} |-> m[x]]

\* v, ok := m[k] on a Go map: the zero value and false when k is absent.
MapLookup(m, k, zero) == IF k \in DOMAIN m THEN <<m[k], TRUE>> ELSE <<zero, FALSE>>

\* make(map[..]..): the empty map.
EmptyMap == << >>

\* ---------------------------------------------------------------- registry

VARIABLES
    keyToValue,   \* pr.keyToValue  map[PodName]PodID
    valueToKey,   \* pr.valueToKey  map[PodID]PodName
    keyOrder,     \* pr.keyOrder    []PodName
    capacity,     \* pr.capacity    int
    lastOp,       \* history: the method that ran last and its arguments
    prev,         \* history: the registry as it was when that method was entered
    ret,          \* history: what that method returned
    mutex,        \* pr.mutex     sync.RWMutex of the registry
    data,         \* ps.data      map[string]map[string]PodInfo of the PodStore
    psMutex,      \* ps.mutex     sync.RWMutex of the PodStore
    status,       \* the program: "new" (before NewPodRegistry), "ready", "panic"
    pc,           \* per goroutine: the statement it executes next
    call,         \* per goroutine: the method it calls and the arguments
    local,        \* per goroutine: the local variables of the method
    returned,     \* per goroutine: what its method returned
    committed,    \* history: the registry around the last whole Set or Delete
    started,      \* history: the registry and the store the goroutines started on
    snapshot,     \* the map a caller holds that GetAll returned to it
    callerLabels, \* the labels map a caller of AddPod holds, and where it is stored
    buffer,       \* UDP server: buffer  []byte of main, shared by every request
    reader,       \* UDP server: the receive loop of main (position, datagram read)
    handlers,     \* UDP server: the handleUDPRequest goroutines started so far
    sent          \* UDP server: the responses written to the socket

regVars == <<keyToValue, valueToKey, keyOrder, capacity>>
histVars == <<lastOp, prev, ret, started>>
storeVars == <<data, psMutex>>
procVars == <<status, pc, call, local, returned, committed>>
clientVars == <<callerLabels>>
udpVars == <<buffer, reader, handlers, sent>>

vars == <<keyToValue, valueToKey, keyOrder, capacity, lastOp, prev, ret,
          mutex, data, psMutex, status, pc, call, local, returned, committed,
          started, snapshot, callerLabels, buffer, reader, handlers, sent>>

\* -------------------------------------------------------------- goroutines

\* The goroutines that call the methods concurrently.
Procs == 1..NumProcs

\* ------------------------------------------------------------ sync.RWMutex

\* The zero RWMutex: not write-locked, no reader inside.
NewRWMutex == [writer |-> FALSE, readers |-> 0]

\* Variant of CanLock in which a writer does not wait for the readers inside.
CanLockIgnoresReaders(m) == ~m.writer

\* Variant of CanLock in which a writer does not wait for another writer.
CanLockIgnoresWriter(m) == m.readers = 0

\* Lock() returns only when no writer and no reader holds the mutex.
CanLock(m) == ~m.writer /\ m.readers = 0

\* Variant of CanRLock in which a reader does not wait for the writer inside.
CanRLockIgnoresWriter(m, writerBlocked) == ~writerBlocked

\* RLock() returns only when no writer holds the mutex and no Lock() call is
\* blocked on it (a blocked writer keeps new readers out).
CanRLock(m, writerBlocked) == ~m.writer /\ ~writerBlocked

\* The mutex after Lock(), Unlock(), RLock(), RUnlock().
AfterLock(m) == [m EXCEPT !.writer = TRUE]
AfterUnlock(m) == [m EXCEPT !.writer = FALSE]
AfterRLock(m) == [m EXCEPT !.readers = @ + 1]
AfterRUnlock(m) == [m EXCEPT !.readers = @ - 1]

\* No goroutine is inside a call: the state the sequential callers start from.
NoGoroutines ==
    /\ status = "ready"
    /\ pc = [p \in Procs |-> "done"]
    /\ call = [p \in Procs |-> [op |-> "none"]]
    /\ local = [p \in Procs |-> << >>]
    /\ returned = [p \in Procs |-> << >>]

\* ---------------------------------------------------------------- registry

\* The registry fields as one value (the receiver pr of the Go methods).
PodRegistry ==
    [keyToValue |-> keyToValue, valueToKey |-> valueToKey,
     keyOrder |-> keyOrder, capacity |-> capacity]

\* NewPodRegistry(capacity): two empty maps, an empty slice, the capacity.
NewPodRegistry(c) ==
    [keyToValue |-> EmptyMap, valueToKey |-> EmptyMap,
     keyOrder |-> << >>, capacity |-> c]

\* Index of the first element of order equal to key, 0 when there is none
\* (the position at which the range loop of removeFromKeyOrder breaks).
FirstIndex(order, key) ==
    IF \E i \in 1..Len(order) : order[i] = key
    THEN CHOOSE i \in 1..Len(order) :
             /\ order[i] = key
             /\ \A j \in 1..(i - 1) : order[j] # key
    ELSE 0

\* removeFromKeyOrder: drop the first occurrence of key, shifting the tail left.
removeFromKeyOrder(order, key) ==
    LET i == FirstIndex(order, key)
    IN  IF i = 0 THEN order
        ELSE SubSeq(order, 1, i - 1) \o SubSeq(order, i + 1, Len(order))

\* Variant of deleteInternal that forgets the key's slot in keyOrder.
deleteInternalKeepsOrder(pr, key) ==
    IF key \notin DOMAIN pr.keyToValue
    THEN pr
    ELSE LET value == pr.keyToValue[key]
         IN  [pr EXCEPT !.keyToValue = MapDelete(@, key),
                        !.valueToKey = MapDelete(@, value)]

\* Variant of deleteInternal without the existence check, whose slice removal
\* shortens keyOrder by one also when the key was not found in it.
deleteInternalUnchecked(pr, key) ==
    LET value == MapLookup(pr.keyToValue, key, ZeroPodID)[1]
        shifted == removeFromKeyOrder(pr.keyOrder, key)
    IN  [pr EXCEPT !.keyToValue = MapDelete(@, key),
                   !.valueToKey = MapDelete(@, value),
                   !.keyOrder = IF Len(shifted) = Len(pr.keyOrder)
                                THEN SubSeq(shifted, 1, Len(shifted) - 1)
                                ELSE shifted]

\* deleteInternal: nothing when key is absent; otherwise drop the forward entry,
\* the reverse entry of the value it held, and the key's slot in keyOrder.
deleteInternal(pr, key) ==
    IF key \notin DOMAIN pr.keyToValue
    THEN pr
    ELSE LET value == pr.keyToValue[key]
         IN  [pr EXCEPT !.keyToValue = MapDelete(@, key),
                        !.valueToKey = MapDelete(@, value),
                        !.keyOrder = removeFromKeyOrder(@, key)]

\* Variant of the new-key branch that tests len > capacity instead of >=.
SetNewOffByOne(pr, key, value) ==
    LET pr1 == IF Cardinality(DOMAIN pr.keyToValue) > pr.capacity
               THEN deleteInternal(pr, pr.keyOrder[1])
               ELSE pr
    IN  [pr1 EXCEPT !.keyToValue = MapSet(@, key, value),
                    !.valueToKey = MapSet(@, value, key),
                    !.keyOrder = Append(@, key)]

\* Variant of the new-key branch that evicts the last key of keyOrder.
SetNewEvictsNewest(pr, key, value) ==
    LET pr1 == IF Cardinality(DOMAIN pr.keyToValue) >= pr.capacity
               THEN deleteInternal(pr, pr.keyOrder[Len(pr.keyOrder)])
               ELSE pr
    IN  [pr1 EXCEPT !.keyToValue = MapSet(@, key, value),
                    !.valueToKey = MapSet(@, value, key),
                    !.keyOrder = Append(@, key)]

\* Variant of the new-key branch that leaves a reverse entry that already
\* exists for the value with its owner.
SetNewKeepsOwner(pr, key, value) ==
    LET pr1 == IF Cardinality(DOMAIN pr.keyToValue) >= pr.capacity
               THEN deleteInternal(pr, pr.keyOrder[1])
               ELSE pr
    IN  [pr1 EXCEPT !.keyToValue = MapSet(@, key, value),
                    !.valueToKey = IF value \in DOMAIN @ THEN @
                                   ELSE MapSet(@, value, key),
                    !.keyOrder = Append(@, key)]

\* Set, new-key branch: at capacity, evict keyOrder[0] first; then bind and append.
SetNew(pr, key, value) ==
    LET pr1 == IF Cardinality(DOMAIN pr.keyToValue) >= pr.capacity
               THEN deleteInternal(pr, pr.keyOrder[1])
               ELSE pr
    IN  [pr1 EXCEPT !.keyToValue = MapSet(@, key, value),
                    !.valueToKey = MapSet(@, value, key),
                    !.keyOrder = Append(@, key)]

\* Variant of the existing-key branch that leaves the key where it is in keyOrder.
SetExistingKeepsOrder(pr, key, value) ==
    LET oldValue == pr.keyToValue[key]
    IN  [pr EXCEPT !.keyToValue = MapSet(@, key, value),
                   !.valueToKey = MapSet(MapDelete(@, oldValue), value, key)]

\* Variant of the existing-key branch that forgets to drop the old reverse entry.
SetExistingKeepsOldReverse(pr, key, value) ==
    [pr EXCEPT !.keyToValue = MapSet(@, key, value),
               !.valueToKey = MapSet(@, value, key),
               !.keyOrder = Append(removeFromKeyOrder(@, key), key)]

\* Variant of the existing-key branch that applies the capacity check of the
\* new-key branch as well: an update on a full registry evicts keyOrder[0].
SetExistingEvicts(pr, key, value) ==
    LET pr1 == IF Cardinality(DOMAIN pr.keyToValue) >= pr.capacity /\ pr.keyOrder[1] # key
               THEN deleteInternal(pr, pr.keyOrder[1])
               ELSE pr
        oldValue == pr1.keyToValue[key]
    IN  [pr1 EXCEPT !.keyToValue = MapSet(@, key, value),
                    !.valueToKey = MapSet(MapDelete(@, oldValue), value, key),
                    !.keyOrder = Append(removeFromKeyOrder(@, key), key)]

\* Set, existing-key branch: unbind the old value, bind the new one, and move
\* the key to the end of keyOrder.
SetExisting(pr, key, value) ==
    LET oldValue == pr.keyToValue[key]
    IN  [pr EXCEPT !.keyToValue = MapSet(@, key, value),
                   !.valueToKey = MapSet(MapDelete(@, oldValue), value, key),
                   !.keyOrder = Append(removeFromKeyOrder(@, key), key)]

\* Set(key, value) under pr.mutex.
Set(pr, key, value) ==
    IF key \in DOMAIN pr.keyToValue
    THEN SetExisting(pr, key, value)
    ELSE SetNew(pr, key, value)

\* Delete(key) under pr.mutex.
Delete(pr, key) == deleteInternal(pr, key)

\* GetValueByKey(key): (value, exists).
GetValueByKey(pr, key) == MapLookup(pr.keyToValue, key, ZeroPodID)

\* GetKeyByValue(value): (key, exists).
GetKeyByValue(pr, value) == MapLookup(pr.valueToKey, value, ZeroPodName)

\* Count(): len(pr.keyToValue).
Count(pr) == Cardinality(DOMAIN pr.keyToValue)

\* GetAll(): a fresh map holding every forward entry.
GetAll(pr) == [k \in DOMAIN pr.keyToValue |-> pr.keyToValue[k]]

\* ---------------------------------------------------------------- PodStore

\* type PodInfo struct { Labels map[string]string; IPv4, IPv6 string }
PodInfo(labels, ipv4, ipv6) == [Labels |-> labels, IPv4 |-> ipv4, IPv6 |-> ipv6]

\* type IpInfo struct { IPv4, IPv6 string }
IpInfo(ipv4, ipv6) == [IPv4 |-> ipv4, IPv6 |-> ipv6]

\* NewPodStore(): an empty outer map.
NewPodStore == EmptyMap

\* Variant of AddPod that makes a new inner map for the namespace on every
\* call, also when the namespace already has one.
AddPodFreshNamespace(d, namespace, name, labels, ipv4, ipv6) ==
    MapSet(d, namespace, MapSet(EmptyMap, name, PodInfo(labels, ipv4, ipv6)))

\* AddPod: create the inner map of the namespace when it is missing, then
\* store a new PodInfo under the name.
AddPod(d, namespace, name, labels, ipv4, ipv6) ==
    LET d1 == IF namespace \notin DOMAIN d THEN MapSet(d, namespace, EmptyMap) ELSE d
    IN  MapSet(d1, namespace, MapSet(d1[namespace], name, PodInfo(labels, ipv4, ipv6)))

\* Variant of DeletePod that drops the namespace with all its pods.
DeletePodDropsNamespace(d, namespace, name) == MapDelete(d, namespace)

\* Variant of DeletePod that leaves the inner map of the namespace in place
\* when its last pod is deleted.
DeletePodKeepsNamespace(d, namespace, name) ==
    IF namespace \in DOMAIN d
    THEN MapSet(d, namespace, MapDelete(d[namespace], name))
    ELSE d

\* DeletePod: when the namespace exists, delete the name from its inner map and
\* drop the namespace when the inner map became empty.
DeletePod(d, namespace, name) ==
    IF namespace \in DOMAIN d
    THEN LET d1 == MapSet(d, namespace, MapDelete(d[namespace], name))
         IN  IF Cardinality(DOMAIN d1[namespace]) = 0
             THEN MapDelete(d1, namespace)
             ELSE d1
    ELSE d

\* matchesSelector: every selector pair (key, value) has labels[key] == value,
\* where labels[key] of a missing key is Go's zero string "".
matchesSelector(labels, selector) ==
    \A key \in DOMAIN selector : MapLookup(labels, key, "")[1] = selector[key]

\* The address strings the model stores in the IPv4 field.
IPv4Text == {"192.168.1.1", "192.168.1.2", "::ffff:192.168.1.1", "", "not-an-ip"}

\* net.ParseIP(s).String() on the strings of IPv4Text: a dotted quad in
\* canonical form renders as itself, an IPv4-mapped IPv6 address renders as the
\* dotted quad it maps, the empty string and a string that is no address do
\* not parse and the nil IP renders as "<nil>".
ParseIPString(s) ==
    CASE s \in {"", "not-an-ip"} -> "<nil>"
      [] s = "::ffff:192.168.1.1" -> "192.168.1.1"
      [] OTHER -> s

\* The bytes of the rendered strings (Go compares strings byte by byte).
Bytes(s) ==
    CASE s = "<nil>" -> <<60, 110, 105, 108, 62>>
      [] s = "192.168.1.1" -> <<49, 57, 50, 46, 49, 54, 56, 46, 49, 46, 49>>
      [] s = "192.168.1.2" -> <<49, 57, 50, 46, 49, 54, 56, 46, 49, 46, 50>>

\* a < b on Go strings: at the first position where they differ a has the
\* smaller byte, or a is a proper prefix of b.
StringLess(a, b) ==
    LET x == Bytes(a)
        y == Bytes(b)
    IN  \E i \in 1..(Len(y)) :
            /\ \A j \in 1..(i - 1) : j <= Len(x) /\ x[j] = y[j]
            /\ (i > Len(x) \/ x[i] < y[i])

\* Variant of SortLess that orders by descending key.
SortLessDescending(a, b) == StringLess(ParseIPString(b.IPv4), ParseIPString(a.IPv4))

\* The less function handed to sort.Slice.
SortLess(a, b) == StringLess(ParseIPString(a.IPv4), ParseIPString(b.IPv4))

\* The (namespace, name) pairs stored.
StorePods(d) == UNION {{<<ns, name>> : name \in DOMAIN d[ns]} : ns \in DOMAIN d}

\* The pods the two range loops of GetIPWithLabelSelector append.
MatchingPods(d, selector) ==
    {pod \in StorePods(d) : matchesSelector(d[pod[1]][pod[2]].Labels, selector)}

\* The orders in which the range loops can visit a set of pods (Go leaves the
\* iteration order of a map open).
Visits(pods) ==
    {f \in [1..Cardinality(pods) -> pods] : \A pod \in pods : \E i \in DOMAIN f : f[i] = pod}

\* GetIPWithLabelSelector: the slices the call can return: one IpInfo per
\* matching pod, in an order sort.Slice can leave them in (no element is less
\* than one before it; sort.Slice is not stable).
GetIPWithLabelSelector(d, selector) ==
    LET slices == {[i \in DOMAIN f |-> IpInfo(d[f[i][1]][f[i][2]].IPv4, d[f[i][1]][f[i][2]].IPv6)] :
                       f \in Visits(MatchingPods(d, selector))}
    IN  {sl \in slices : \A i, j \in DOMAIN sl : i < j => ~SortLess(sl[j], sl[i])}

\* ------------------------------------------------------- the returned map

\* A Go map value is a reference to a map object. The model names the object a
\* caller's variable refers to: "result" is the map GetAll makes for this call,
\* "pr.keyToValue" is the registry's own forward map, "none" is no map yet.
\* entries holds the contents of an object that only the caller refers to.
NoSnapshot == [object |-> "none", entries |-> EmptyMap]

\* Variant of GetAllResult that hands out the registry's forward map itself
\* instead of a copy of it.
GetAllReturnsInternal(pr) == [object |-> "pr.keyToValue", entries |-> EmptyMap]

\* What GetAll returns: result := make(map[PodName]PodID, len(pr.keyToValue)),
\* filled by the range loop with every entry of pr.keyToValue.
GetAllResult(pr) == [object |-> "result", entries |-> GetAll(pr)]

\* The contents of the map object m refers to, read through the reference.
Entries(m) == IF m.object = "pr.keyToValue" THEN keyToValue ELSE m.entries

\* ------------------------------------------------------------- other programs

\* No caller of the PodStore holds a labels map.
NoStoreCaller == callerLabels = << >>

\* The UDP server is not running.
NoUdpServer ==
    /\ buffer = << >>
    /\ reader = << >>
    /\ handlers = << >>
    /\ sent = << >>

\* ----------------------------------------------------------------- actions

Op(name, key, value) == [op |-> name, key |-> key, value |-> value]

\* The registry variables take the fields of pr2; the history records the call.
Write(pr2, op) ==
    /\ keyToValue' = pr2.keyToValue
    /\ valueToKey' = pr2.valueToKey
    /\ keyOrder' = pr2.keyOrder
    /\ capacity' = pr2.capacity
    /\ lastOp' = op
    /\ prev' = PodRegistry
    /\ ret' = <<>>
    /\ UNCHANGED <<mutex, storeVars, procVars, started, snapshot, clientVars, udpVars>>

\* Variant of Read that treats a lookup of a present key as a use of it and
\* moves the key to the end of keyOrder (access-ordered instead of write-ordered).
ReadRefreshesKey(op, result) ==
    /\ UNCHANGED <<keyToValue, valueToKey, capacity>>
    /\ keyOrder' = IF op.key \in DOMAIN keyToValue
                   THEN Append(removeFromKeyOrder(keyOrder, op.key), op.key)
                   ELSE keyOrder
    /\ lastOp' = op
    /\ prev' = PodRegistry
    /\ ret' = result
    /\ UNCHANGED <<mutex, storeVars, procVars, started, snapshot, clientVars, udpVars>>

\* A read leaves the registry variables alone and records its result.
Read(op, result) ==
    /\ UNCHANGED <<keyToValue, valueToKey, keyOrder, capacity>>
    /\ lastOp' = op
    /\ prev' = PodRegistry
    /\ ret' = result
    /\ UNCHANGED <<mutex, storeVars, procVars, started, snapshot, clientVars, udpVars>>

Init ==
    /\ capacity \in 1..MaxCapacity
    /\ keyToValue = EmptyMap
    /\ valueToKey = EmptyMap
    /\ keyOrder = << >>
    /\ lastOp = Op("New", ZeroPodName, ZeroPodID)
    /\ prev = NewPodRegistry(capacity)
    /\ ret = <<>>
    /\ mutex = NewRWMutex
    /\ data = EmptyMap
    /\ psMutex = NewRWMutex
    /\ NoGoroutines
    /\ committed = << >>
    /\ started = << >>
    /\ snapshot = NoSnapshot
    /\ NoStoreCaller
    /\ NoUdpServer

SetCall ==
    \E key \in PodName, value \in PodID :
        Write(Set(PodRegistry, key, value), Op("Set", key, value))

DeleteCall ==
    \E key \in PodName :
        Write(Delete(PodRegistry, key), Op("Delete", key, ZeroPodID))

GetValueByKeyCall ==
    \E key \in PodName :
        Read(Op("GetValueByKey", key, ZeroPodID), GetValueByKey(PodRegistry, key))

GetKeyByValueCall ==
    \E value \in PodID :
        Read(Op("GetKeyByValue", ZeroPodName, value), GetKeyByValue(PodRegistry, value))

CountCall ==
    Read(Op("Count", ZeroPodName, ZeroPodID), <<Count(PodRegistry)>>)

GetAllCall ==
    Read(Op("GetAll", ZeroPodName, ZeroPodID), <<GetAll(PodRegistry)>>)

Next ==
    \/ SetCall
    \/ DeleteCall
    \/ GetValueByKeyCall
    \/ GetKeyByValueCall
    \/ CountCall
    \/ GetAllCall

Spec == Init /\ [][Next]_vars

\* The keys and values of the calls in SpecSnapshot.
SnapshotNames == {k \in PodName : k.Namespace = "ns1"}
SnapshotIDs == {v \in PodID : v.PodUuid \in {"uuid1", "uuid2"}}

\* Set and Delete on the registry while a caller holds a returned map.
SnapshotSet ==
    \E key \in SnapshotNames, value \in SnapshotIDs :
        Write(Set(PodRegistry, key, value), Op("Set", key, value))

SnapshotDelete ==
    \E key \in SnapshotNames :
        Write(Delete(PodRegistry, key), Op("Delete", key, ZeroPodID))

\* allData := registry.GetAll(): the caller keeps the map GetAll returns.
GetAllKept ==
    /\ snapshot' = GetAllResult(PodRegistry)
    /\ lastOp' = Op("GetAll", ZeroPodName, ZeroPodID)
    /\ prev' = PodRegistry
    /\ ret' = <<GetAll(PodRegistry)>>
    /\ UNCHANGED <<regVars, mutex, storeVars, procVars, started, clientVars, udpVars>>

\* The caller stores into or deletes from the map object m refers to: the
\* registry's forward map when m refers to it, the caller's own map otherwise.
MapObjectUpdate(m, entries) ==
    IF m.object = "pr.keyToValue"
    THEN keyToValue' = entries /\ UNCHANGED snapshot
    ELSE snapshot' = [m EXCEPT !.entries = entries] /\ UNCHANGED keyToValue

\* allData[key] = value by the caller.
CallerStore ==
    \E key \in SnapshotNames, value \in SnapshotIDs :
        /\ snapshot.object # "none"
        /\ MapObjectUpdate(snapshot, MapSet(Entries(snapshot), key, value))
        /\ lastOp' = Op("allData[key] = value", key, value)
        /\ prev' = PodRegistry
        /\ ret' = <<>>
        /\ UNCHANGED <<valueToKey, keyOrder, capacity, mutex, storeVars, procVars, started, clientVars, udpVars>>

\* delete(allData, key) by the caller.
CallerDelete ==
    \E key \in SnapshotNames :
        /\ snapshot.object # "none"
        /\ MapObjectUpdate(snapshot, MapDelete(Entries(snapshot), key))
        /\ lastOp' = Op("delete(allData, key)", key, ZeroPodID)
        /\ prev' = PodRegistry
        /\ ret' = <<>>
        /\ UNCHANGED <<valueToKey, keyOrder, capacity, mutex, storeVars, procVars, started, clientVars, udpVars>>

NextSnapshot ==
    \/ SnapshotSet
    \/ SnapshotDelete
    \/ GetAllKept
    \/ CallerStore
    \/ CallerDelete

\* One caller that keeps and changes the map GetAll returned, and the registry
\* written to meanwhile.
SpecSnapshot == Init /\ [][NextSnapshot]_vars

\* The names of the four read methods.
ReadOps == {"GetValueByKey", "GetKeyByValue", "Count", "GetAll"}

\* ------------------------------------------------------- concurrent callers
\* Each goroutine makes one call.  A method is a sequence of steps, one per
\* statement that reads or writes a shared field; the labels are the method and
\* the line of string_storage.go (PodRegistry) or of the PodStore file.

\* What the registry holds when the goroutines start: what main() has set up
\* by then, nothing or its first entry.
InitialRegistries(c) ==
    {NewPodRegistry(c),
     Set(NewPodRegistry(c), [Podname |-> "pod1", Namespace |-> "ns1"],
         [PodUuid |-> "uuid1", ContainerId |-> "container1"])}

\* What the store holds when the goroutines start: nothing, or the first pod
\* main() adds.
InitialStores ==
    {NewPodStore,
     AddPod(NewPodStore, "default", "pod1", [app |-> "nginx", env |-> "prod"],
            "192.168.1.1", "fe80::1")}

\* The registry calls a goroutine can make.
RegistryCalls ==
    LET keys == {k \in PodName : k.Namespace = "ns1"}
        values == {v \in PodID : v.PodUuid \in {"uuid1", "uuid2"}}
    IN  {Op("Set", k, v) : k \in keys, v \in values}
        \cup {Op("Delete", k, ZeroPodID) : k \in keys}
        \cup {Op("GetValueByKey", k, ZeroPodID) : k \in keys}
        \cup {Op("GetKeyByValue", ZeroPodName, v) : v \in values}
        \cup {Op("Count", ZeroPodName, ZeroPodID), Op("GetAll", ZeroPodName, ZeroPodID)}

\* The PodStore calls a goroutine can make.
StoreCalls ==
    {[op |-> "AddPod", namespace |-> ns, name |-> name,
      labels |-> [app |-> "nginx"], ipv4 |-> "192.168.1.2", ipv6 |-> ""] :
         ns \in {"default", "kube-system"}, name \in {"pod1", "pod2"}}
    \cup {[op |-> "DeletePod", namespace |-> "default", name |-> name] :
              name \in {"pod1", "pod2"}}
    \cup {[op |-> "GetIPWithLabelSelector", selector |-> sel] :
              sel \in {EmptyMap, [app |-> "nginx"], [env |-> ""]}}

\* The first label of a call: the lock it asks for.
Entry(c) ==
    CASE c.op \in {"Set", "Delete"} -> "pr.Lock"
      [] c.op \in ReadOps -> "pr.RLock"
      [] c.op \in {"AddPod", "DeletePod"} -> "ps.Lock"
      [] c.op = "GetIPWithLabelSelector" -> "ps.RLock"

\* A goroutine is blocked inside pr.mutex.Lock() / ps.mutex.Lock().
RegWriterBlocked == \E q \in Procs : pc[q] = "pr.Lock.wait"
StoreWriterBlocked == \E q \in Procs : pc[q] = "ps.Lock.wait"

\* The registry as the last whole write left it, the registry before that
\* write, and the write.
Commit(before, by, now) == [before |-> before, by |-> by, now |-> now]

Goto(p, label) == pc' = [pc EXCEPT ![p] = label]

\* A runtime panic: the deferred unlock runs and the program dies.
Panic == status' = "panic"

\* Where deleteInternal returns to: Set goes on binding the new key, Delete
\* goes to its deferred Unlock.
AfterDeleteInternal(p) == IF call[p].op = "Set" THEN "Set.98" ELSE "pr.Unlock"

\* pr.mutex.Lock() is called (Set line 77, Delete line 106): from now on the
\* writer is pending and new readers are kept out.
RegLockCall(p) ==
    /\ status = "ready" /\ pc[p] = "pr.Lock"
    /\ Goto(p, "pr.Lock.wait")
    /\ UNCHANGED <<regVars, histVars, snapshot, clientVars, udpVars, mutex, storeVars, status, call, local, returned, committed>>

\* pr.mutex.Lock() returns.
RegLock(p) ==
    /\ status = "ready" /\ pc[p] = "pr.Lock.wait"
    /\ CanLock(mutex)
    /\ mutex' = AfterLock(mutex)
    /\ IF call[p].op = "Set"
       THEN Goto(p, "Set.80") /\ UNCHANGED local
       ELSE /\ Goto(p, "deleteInternal.114")
            /\ local' = [local EXCEPT ![p] = [key |-> call[p].key]]
    /\ UNCHANGED <<regVars, histVars, snapshot, clientVars, udpVars, storeVars, status, call, returned, committed>>

\* Set line 80: _, exists := pr.keyToValue[key]; branch.
Set80(p) ==
    /\ status = "ready" /\ pc[p] = "Set.80"
    /\ Goto(p, IF call[p].key \in DOMAIN keyToValue THEN "Set.84" ELSE "Set.92")
    /\ UNCHANGED <<regVars, histVars, snapshot, clientVars, udpVars, mutex, storeVars, status, call, local, returned, committed>>

\* Set lines 83-84: oldValue := pr.keyToValue[key]; delete(pr.valueToKey, oldValue).
Set84(p) ==
    /\ status = "ready" /\ pc[p] = "Set.84"
    /\ valueToKey' = MapDelete(valueToKey, MapLookup(keyToValue, call[p].key, ZeroPodID)[1])
    /\ Goto(p, "Set.85")
    /\ UNCHANGED <<keyToValue, keyOrder, capacity, histVars, snapshot, clientVars, udpVars, mutex, storeVars,
                   status, call, local, returned, committed>>

\* Set lines 85 and 98: pr.keyToValue[key] = value.
SetForward(p) ==
    /\ status = "ready" /\ pc[p] \in {"Set.85", "Set.98"}
    /\ keyToValue' = MapSet(keyToValue, call[p].key, call[p].value)
    /\ Goto(p, IF pc[p] = "Set.85" THEN "Set.86" ELSE "Set.99")
    /\ UNCHANGED <<valueToKey, keyOrder, capacity, histVars, snapshot, clientVars, udpVars, mutex, storeVars,
                   status, call, local, returned, committed>>

\* Set lines 86 and 99: pr.valueToKey[value] = key.
SetReverse(p) ==
    /\ status = "ready" /\ pc[p] \in {"Set.86", "Set.99"}
    /\ valueToKey' = MapSet(valueToKey, call[p].value, call[p].key)
    /\ Goto(p, IF pc[p] = "Set.86" THEN "Set.88" ELSE "Set.100")
    /\ UNCHANGED <<keyToValue, keyOrder, capacity, histVars, snapshot, clientVars, udpVars, mutex, storeVars,
                   status, call, local, returned, committed>>

\* Set line 88: pr.removeFromKeyOrder(key).
Set88(p) ==
    /\ status = "ready" /\ pc[p] = "Set.88"
    /\ keyOrder' = removeFromKeyOrder(keyOrder, call[p].key)
    /\ Goto(p, "Set.89")
    /\ UNCHANGED <<keyToValue, valueToKey, capacity, histVars, snapshot, clientVars, udpVars, mutex, storeVars,
                   status, call, local, returned, committed>>

\* Set lines 89 and 100: pr.keyOrder = append(pr.keyOrder, key).
SetAppend(p) ==
    /\ status = "ready" /\ pc[p] \in {"Set.89", "Set.100"}
    /\ keyOrder' = Append(keyOrder, call[p].key)
    /\ Goto(p, "pr.Unlock")
    /\ UNCHANGED <<keyToValue, valueToKey, capacity, histVars, snapshot, clientVars, udpVars, mutex, storeVars,
                   status, call, local, returned, committed>>

\* Set lines 92-95: at capacity, oldestKey := pr.keyOrder[0] (index out of
\* range panics on an empty slice) and deleteInternal(oldestKey) is entered.
Set92(p) ==
    /\ status = "ready" /\ pc[p] = "Set.92"
    /\ IF Cardinality(DOMAIN keyToValue) >= capacity
       THEN IF Len(keyOrder) = 0
            THEN /\ Panic
                 /\ mutex' = AfterUnlock(mutex)
                 /\ UNCHANGED <<pc, local>>
            ELSE /\ local' = [local EXCEPT ![p] = [key |-> keyOrder[1]]]
                 /\ Goto(p, "deleteInternal.114")
                 /\ UNCHANGED <<status, mutex>>
       ELSE /\ Goto(p, "Set.98")
            /\ UNCHANGED <<status, mutex, local>>
    /\ UNCHANGED <<regVars, histVars, snapshot, clientVars, udpVars, storeVars, call, returned, committed>>

\* Variant of Del114 for a Delete whose Unlock is not deferred but written at
\* the end of the method: the early return of an absent key leaves the method
\* with the mutex held.
Del114ReturnsLocked(p) ==
    /\ status = "ready" /\ pc[p] = "deleteInternal.114"
    /\ IF local[p].key \in DOMAIN keyToValue
       THEN /\ local' = [local EXCEPT ![p] = [key |-> local[p].key,
                                               value |-> keyToValue[local[p].key]]]
            /\ Goto(p, "deleteInternal.121")
       ELSE /\ Goto(p, IF call[p].op = "Set" THEN "Set.98" ELSE "done")
            /\ UNCHANGED local
    /\ UNCHANGED <<regVars, histVars, snapshot, clientVars, udpVars, mutex, storeVars, status, call, returned, committed>>

\* deleteInternal lines 114-118: value, exists := pr.keyToValue[key]; return
\* when the key is absent.
Del114(p) ==
    /\ status = "ready" /\ pc[p] = "deleteInternal.114"
    /\ IF local[p].key \in DOMAIN keyToValue
       THEN /\ local' = [local EXCEPT ![p] = [key |-> local[p].key,
                                               value |-> keyToValue[local[p].key]]]
            /\ Goto(p, "deleteInternal.121")
       ELSE /\ Goto(p, AfterDeleteInternal(p))
            /\ UNCHANGED local
    /\ UNCHANGED <<regVars, histVars, snapshot, clientVars, udpVars, mutex, storeVars, status, call, returned, committed>>

\* deleteInternal line 121: delete(pr.keyToValue, key).
Del121(p) ==
    /\ status = "ready" /\ pc[p] = "deleteInternal.121"
    /\ keyToValue' = MapDelete(keyToValue, local[p].key)
    /\ Goto(p, "deleteInternal.124")
    /\ UNCHANGED <<valueToKey, keyOrder, capacity, histVars, snapshot, clientVars, udpVars, mutex, storeVars,
                   status, call, local, returned, committed>>

\* deleteInternal line 124: delete(pr.valueToKey, value).
Del124(p) ==
    /\ status = "ready" /\ pc[p] = "deleteInternal.124"
    /\ valueToKey' = MapDelete(valueToKey, local[p].value)
    /\ Goto(p, "deleteInternal.127")
    /\ UNCHANGED <<keyToValue, keyOrder, capacity, histVars, snapshot, clientVars, udpVars, mutex, storeVars,
                   status, call, local, returned, committed>>

\* deleteInternal line 127: pr.removeFromKeyOrder(key); return.
Del127(p) ==
    /\ status = "ready" /\ pc[p] = "deleteInternal.127"
    /\ keyOrder' = removeFromKeyOrder(keyOrder, local[p].key)
    /\ Goto(p, AfterDeleteInternal(p))
    /\ UNCHANGED <<keyToValue, valueToKey, capacity, histVars, snapshot, clientVars, udpVars, mutex, storeVars,
                   status, call, local, returned, committed>>

\* The deferred pr.mutex.Unlock() of Set and Delete; the method returns.
RegUnlock(p) ==
    /\ status = "ready" /\ pc[p] = "pr.Unlock"
    /\ mutex' = AfterUnlock(mutex)
    /\ Goto(p, "done")
    /\ committed' = Commit(committed.now, call[p], PodRegistry)
    /\ UNCHANGED <<regVars, histVars, snapshot, clientVars, udpVars, storeVars, status, call, local, returned>>

\* pr.mutex.RLock() returns (lines 144, 153, 162, 170).
RegRLock(p) ==
    /\ status = "ready" /\ pc[p] = "pr.RLock"
    /\ CanRLock(mutex, RegWriterBlocked)
    /\ mutex' = AfterRLock(mutex)
    /\ Goto(p, "pr.read")
    /\ UNCHANGED <<regVars, histVars, snapshot, clientVars, udpVars, storeVars, status, call, local, returned, committed>>

\* What a read method computes on the registry pr.
ReadResult(c, pr) ==
    CASE c.op = "GetValueByKey" -> GetValueByKey(pr, c.key)
      [] c.op = "GetKeyByValue" -> GetKeyByValue(pr, c.value)
      [] c.op = "Count" -> <<Count(pr)>>
      [] c.op = "GetAll" -> <<GetAll(pr)>>

\* The body of GetValueByKey, GetKeyByValue, Count or GetAll.
RegRead(p) ==
    /\ status = "ready" /\ pc[p] = "pr.read"
    /\ returned' = [returned EXCEPT ![p] = ReadResult(call[p], PodRegistry)]
    /\ Goto(p, "pr.RUnlock")
    /\ UNCHANGED <<regVars, histVars, snapshot, clientVars, udpVars, mutex, storeVars, status, call, local, committed>>

\* The deferred pr.mutex.RUnlock() of a read method; the method returns.
RegRUnlock(p) ==
    /\ status = "ready" /\ pc[p] = "pr.RUnlock"
    /\ mutex' = AfterRUnlock(mutex)
    /\ Goto(p, "done")
    /\ UNCHANGED <<regVars, histVars, snapshot, clientVars, udpVars, storeVars, status, call, local, returned, committed>>

\* ps.mutex.Lock() is called (AddPod line 246, DeletePod line 257): from now
\* on the writer is pending and new readers are kept out.
StoreLockCall(p) ==
    /\ status = "ready" /\ pc[p] = "ps.Lock"
    /\ Goto(p, "ps.Lock.wait")
    /\ UNCHANGED <<regVars, histVars, snapshot, clientVars, udpVars, mutex, storeVars, status, call, local, returned, committed>>

\* ps.mutex.Lock() returns.
StoreLock(p) ==
    /\ status = "ready" /\ pc[p] = "ps.Lock.wait"
    /\ CanLock(psMutex)
    /\ psMutex' = AfterLock(psMutex)
    /\ Goto(p, IF call[p].op = "AddPod" THEN "AddPod.249" ELSE "DeletePod.260")
    /\ UNCHANGED <<regVars, histVars, snapshot, clientVars, udpVars, mutex, data, status, call, local, returned, committed>>

\* AddPod line 249: if _, exists := ps.data[namespace]; !exists.
Add249(p) ==
    /\ status = "ready" /\ pc[p] = "AddPod.249"
    /\ Goto(p, IF call[p].namespace \notin DOMAIN data THEN "AddPod.250" ELSE "AddPod.252")
    /\ UNCHANGED <<regVars, histVars, snapshot, clientVars, udpVars, mutex, storeVars, status, call, local, returned, committed>>

\* AddPod line 250: ps.data[namespace] = make(map[string]PodInfo).
Add250(p) ==
    /\ status = "ready" /\ pc[p] = "AddPod.250"
    /\ data' = MapSet(data, call[p].namespace, EmptyMap)
    /\ Goto(p, "AddPod.252")
    /\ UNCHANGED <<regVars, histVars, snapshot, clientVars, udpVars, mutex, psMutex, status, call, local, returned, committed>>

\* AddPod line 252: ps.data[namespace][name] = PodInfo{...} (assignment to an
\* entry of a nil map panics).
Add252(p) ==
    /\ status = "ready" /\ pc[p] = "AddPod.252"
    /\ IF call[p].namespace \in DOMAIN data
       THEN /\ data' = MapSet(data, call[p].namespace,
                              MapSet(data[call[p].namespace], call[p].name,
                                     PodInfo(call[p].labels, call[p].ipv4, call[p].ipv6)))
            /\ Goto(p, "ps.Unlock")
            /\ UNCHANGED <<status, psMutex>>
       ELSE /\ Panic
            /\ psMutex' = AfterUnlock(psMutex)
            /\ UNCHANGED <<data, pc>>
    /\ UNCHANGED <<regVars, histVars, snapshot, clientVars, udpVars, mutex, call, local, returned, committed>>

\* DeletePod line 260: if _, exists := ps.data[namespace]; exists.
Del260(p) ==
    /\ status = "ready" /\ pc[p] = "DeletePod.260"
    /\ Goto(p, IF call[p].namespace \in DOMAIN data THEN "DeletePod.261" ELSE "ps.Unlock")
    /\ UNCHANGED <<regVars, histVars, snapshot, clientVars, udpVars, mutex, storeVars, status, call, local, returned, committed>>

\* DeletePod line 261: delete(ps.data[namespace], name).
Del261(p) ==
    /\ status = "ready" /\ pc[p] = "DeletePod.261"
    /\ data' = IF call[p].namespace \in DOMAIN data
               THEN MapSet(data, call[p].namespace,
                           MapDelete(data[call[p].namespace], call[p].name))
               ELSE data
    /\ Goto(p, "DeletePod.262")
    /\ UNCHANGED <<regVars, histVars, snapshot, clientVars, udpVars, mutex, psMutex, status, call, local, returned, committed>>

\* DeletePod lines 262-264: drop the namespace when its inner map is empty.
Del262(p) ==
    /\ status = "ready" /\ pc[p] = "DeletePod.262"
    /\ data' = IF /\ call[p].namespace \in DOMAIN data
                  /\ Cardinality(DOMAIN data[call[p].namespace]) = 0
               THEN MapDelete(data, call[p].namespace)
               ELSE data
    /\ Goto(p, "ps.Unlock")
    /\ UNCHANGED <<regVars, histVars, snapshot, clientVars, udpVars, mutex, psMutex, status, call, local, returned, committed>>

\* The deferred ps.mutex.Unlock() of AddPod and DeletePod; the method returns.
StoreUnlock(p) ==
    /\ status = "ready" /\ pc[p] = "ps.Unlock"
    /\ psMutex' = AfterUnlock(psMutex)
    /\ Goto(p, "done")
    /\ UNCHANGED <<regVars, histVars, snapshot, clientVars, udpVars, mutex, data, status, call, local, returned, committed>>

\* ps.mutex.RLock() returns (GetIPWithLabelSelector line 270).
StoreRLock(p) ==
    /\ status = "ready" /\ pc[p] = "ps.RLock"
    /\ CanRLock(psMutex, StoreWriterBlocked)
    /\ psMutex' = AfterRLock(psMutex)
    /\ Goto(p, "ps.read")
    /\ UNCHANGED <<regVars, histVars, snapshot, clientVars, udpVars, mutex, data, status, call, local, returned, committed>>

\* The body of GetIPWithLabelSelector: collect, sort, return.
StoreRead(p) ==
    /\ status = "ready" /\ pc[p] = "ps.read"
    /\ \E slice \in GetIPWithLabelSelector(data, call[p].selector) :
           returned' = [returned EXCEPT ![p] = slice]
    /\ Goto(p, "ps.RUnlock")
    /\ UNCHANGED <<regVars, histVars, snapshot, clientVars, udpVars, mutex, storeVars, status, call, local, committed>>

\* The deferred ps.mutex.RUnlock() of GetIPWithLabelSelector; the method returns.
StoreRUnlock(p) ==
    /\ status = "ready" /\ pc[p] = "ps.RUnlock"
    /\ psMutex' = AfterRUnlock(psMutex)
    /\ Goto(p, "done")
    /\ UNCHANGED <<regVars, histVars, snapshot, clientVars, udpVars, mutex, data, status, call, local, returned, committed>>

\* One step of goroutine p.
Goroutine(p) ==
    \/ RegLockCall(p) \/ RegLock(p) \/ Set80(p) \/ Set84(p) \/ SetForward(p) \/ SetReverse(p)
    \/ Set88(p) \/ SetAppend(p) \/ Set92(p)
    \/ Del114(p) \/ Del121(p) \/ Del124(p) \/ Del127(p) \/ RegUnlock(p)
    \/ RegRLock(p) \/ RegRead(p) \/ RegRUnlock(p)
    \/ StoreLockCall(p) \/ StoreLock(p) \/ Add249(p) \/ Add250(p) \/ Add252(p)
    \/ Del260(p) \/ Del261(p) \/ Del262(p) \/ StoreUnlock(p)
    \/ StoreRLock(p) \/ StoreRead(p) \/ StoreRUnlock(p)

NextConc == \E p \in Procs : Goroutine(p)

\* The goroutines start with their calls chosen, on one of the given
\* registries and on a store that main() has set up.
Started(registries) ==
    /\ \E pr \in registries :
           /\ keyToValue = pr.keyToValue
           /\ valueToKey = pr.valueToKey
           /\ keyOrder = pr.keyOrder
           /\ capacity = pr.capacity
           /\ committed = Commit(pr, Op("New", ZeroPodName, ZeroPodID), pr)
           /\ prev = pr
           /\ \E d \in InitialStores :
                  /\ data = d
                  /\ started = [registry |-> pr, data |-> d]
    /\ mutex = NewRWMutex
    /\ psMutex = NewRWMutex
    /\ call \in [Procs -> RegistryCalls \cup StoreCalls]
    /\ pc = [p \in Procs |-> Entry(call[p])]
    /\ local = [p \in Procs |-> << >>]
    /\ returned = [p \in Procs |-> << >>]
    /\ lastOp = Op("New", ZeroPodName, ZeroPodID)
    /\ ret = <<>>
    /\ snapshot = NoSnapshot
    /\ NoStoreCaller
    /\ NoUdpServer

InitConc ==
    /\ status = "ready"
    /\ Started(UNION {InitialRegistries(c) : c \in 1..MaxCapacity})

\* Concurrent callers of one registry and one store.
SpecConc == InitConc /\ [][NextConc]_vars

\* The same under a fair scheduler: a goroutine that can take a step does.
FairConc == SpecConc /\ \A p \in Procs : WF_vars(Goroutine(p))

\* The capacities main() may hand to NewPodRegistry in SpecNew.
NewCapacities == {-1, 0, 1}

\* NewPodRegistry(capacity) runs: make([]PodName, 0, capacity) panics on a
\* negative capacity; any other capacity is accepted and the registry returned.
NewCall ==
    /\ status = "new"
    /\ status' = IF capacity < 0 THEN "panic" ELSE "ready"
    /\ UNCHANGED <<regVars, histVars, snapshot, clientVars, udpVars, mutex, storeVars, pc, call, local, returned, committed>>

\* Before NewPodRegistry is called: the capacity argument chosen, the maps and
\* the slice as the constructor will make them.
InitNew ==
    /\ status = "new"
    /\ Started({NewPodRegistry(c) : c \in NewCapacities})

\* The program from the construction of the registry on.
SpecNew == InitNew /\ [][NewCall \/ NextConc]_vars

\* ---------------------------------------------------- PodStore, one caller

\* The AddPod calls of the caller with a map literal for the labels, as in
\* main(): the caller keeps no reference to the labels.
StoreAdds ==
    {[op |-> "AddPod", namespace |-> "default", name |-> "pod1",
      labels |-> [app |-> "nginx", env |-> "prod"], ipv4 |-> "192.168.1.1", ipv6 |-> "fe80::1"],
     [op |-> "AddPod", namespace |-> "default", name |-> "pod1",
      labels |-> [app |-> "nginx"], ipv4 |-> "192.168.1.2", ipv6 |-> ""],
     [op |-> "AddPod", namespace |-> "default", name |-> "pod2",
      labels |-> [app |-> "nginx", env |-> "dev"], ipv4 |-> "192.168.1.2", ipv6 |-> ""],
     [op |-> "AddPod", namespace |-> "default", name |-> "pod2",
      labels |-> [app |-> "nginx"], ipv4 |-> "not-an-ip", ipv6 |-> "fe80::1"],
     [op |-> "AddPod", namespace |-> "kube-system", name |-> "pod1",
      labels |-> [app |-> "kube-dns"], ipv4 |-> "", ipv6 |-> "fe80::2"],
     [op |-> "AddPod", namespace |-> "kube-system", name |-> "pod1",
      labels |-> [app |-> "nginx"], ipv4 |-> "::ffff:192.168.1.1", ipv6 |-> ""]}

\* The selectors of the caller's queries.
Selectors ==
    {EmptyMap, [app |-> "nginx"], [env |-> ""], [app |-> "nginx", env |-> "prod"]}

\* The contents the caller gives the labels map it holds.
CallerLabelSets == {[app |-> "nginx"], [app |-> "redis"], EmptyMap}

\* The caller holds one labels map object; storedAt lists the pods whose
\* PodInfo.Labels refers to that same object.
InitStore ==
    /\ capacity = 1
    /\ keyToValue = EmptyMap
    /\ valueToKey = EmptyMap
    /\ keyOrder = << >>
    /\ lastOp = [op |-> "NewPodStore"]
    /\ prev = NewPodStore
    /\ ret = <<>>
    /\ mutex = NewRWMutex
    /\ data = NewPodStore
    /\ psMutex = NewRWMutex
    /\ NoGoroutines
    /\ committed = << >>
    /\ started = << >>
    /\ snapshot = NoSnapshot
    /\ callerLabels = [entries |-> [app |-> "nginx"], storedAt |-> {}]
    /\ NoUdpServer

\* The store takes the value d; the history records the call and the store
\* it was made on.
StoreWrite(d, op, result, aliased) ==
    /\ data' = d
    /\ lastOp' = op
    /\ prev' = data
    /\ ret' = result
    /\ callerLabels' = [callerLabels EXCEPT !.storedAt = aliased]
    /\ UNCHANGED <<regVars, mutex, psMutex, procVars, started, snapshot, udpVars>>

\* store.AddPod(namespace, name, map[string]string{...}, ipv4, ipv6).
AddPodCall ==
    \E c \in StoreAdds :
        StoreWrite(AddPod(data, c.namespace, c.name, c.labels, c.ipv4, c.ipv6), c, <<>>,
                   callerLabels.storedAt \ {<<c.namespace, c.name>>})

\* store.AddPod(namespace, name, labels, ipv4, ipv6) with the map the caller
\* holds: PodInfo{Labels: labels} stores the reference, not a copy.
AddPodOfCallerLabels ==
    \E namespace \in {"default", "kube-system"} :
        StoreWrite(AddPod(data, namespace, "pod2", callerLabels.entries, "192.168.1.2", ""),
                   [op |-> "AddPod", namespace |-> namespace, name |-> "pod2",
                    labels |-> callerLabels.entries, ipv4 |-> "192.168.1.2", ipv6 |-> ""],
                   <<>>,
                   callerLabels.storedAt \cup {<<namespace, "pod2">>})

\* store.DeletePod(namespace, name).
DeletePodCall ==
    \E namespace \in {"default", "kube-system"}, name \in {"pod1", "pod2"} :
        StoreWrite(DeletePod(data, namespace, name),
                   [op |-> "DeletePod", namespace |-> namespace, name |-> name], <<>>,
                   callerLabels.storedAt \ {<<namespace, name>>})

\* store.GetIPWithLabelSelector(selector).
GetIPWithLabelSelectorCall ==
    \E selector \in Selectors :
        \E slice \in GetIPWithLabelSelector(data, selector) :
            StoreWrite(data, [op |-> "GetIPWithLabelSelector", selector |-> selector],
                       slice, callerLabels.storedAt)

\* The store after the map object the caller holds got the contents entries:
\* every PodInfo whose Labels refers to that object shows them.
LabelsWritten(d, pods, entries) ==
    [ns \in DOMAIN d |->
        [name \in DOMAIN d[ns] |->
            IF <<ns, name>> \in pods
            THEN [d[ns][name] EXCEPT !.Labels = entries]
            ELSE d[ns][name]]]

\* The caller writes to the labels map it holds (labels[key] = value,
\* delete(labels, key)), taking no lock.
CallerChangesLabels ==
    \E entries \in CallerLabelSets \ {callerLabels.entries} :
        /\ callerLabels' = [callerLabels EXCEPT !.entries = entries]
        /\ data' = LabelsWritten(data, callerLabels.storedAt, entries)
        /\ lastOp' = [op |-> "caller writes labels"]
        /\ prev' = data
        /\ ret' = <<>>
        /\ UNCHANGED <<regVars, mutex, psMutex, procVars, started, snapshot, udpVars>>

NextStore ==
    \/ AddPodCall
    \/ AddPodOfCallerLabels
    \/ DeletePodCall
    \/ GetIPWithLabelSelectorCall
    \/ CallerChangesLabels

\* One caller of a PodStore.
SpecStore == InitStore /\ [][NextStore]_vars

\* -------------------------------------------------------------- UDP server

\* The length of main's buffer in the model (make([]byte, 1024) in the source)
\* and the number of datagrams the server receives.
BufferLen == 2
MaxDatagrams == 2

\* The bytes a payload is made of ('a', 'b'), the clients, the datagrams.
Octets == {97, 98}
Clients == {"10.0.0.1", "10.0.0.2"}
Payloads == UNION {[1..n -> Octets] : n \in 1..BufferLen}
Datagrams == [addr : Clients, payload : Payloads]

\* The registry and the store are not part of the UDP server.
NoRegistryNoStore ==
    /\ capacity = 1
    /\ keyToValue = EmptyMap
    /\ valueToKey = EmptyMap
    /\ keyOrder = << >>
    /\ lastOp = Op("New", ZeroPodName, ZeroPodID)
    /\ prev = NewPodRegistry(capacity)
    /\ ret = <<>>
    /\ mutex = NewRWMutex
    /\ data = EmptyMap
    /\ psMutex = NewRWMutex
    /\ NoGoroutines
    /\ committed = << >>
    /\ started = << >>
    /\ snapshot = NoSnapshot
    /\ NoStoreCaller

\* main up to the receive loop: buffer := make([]byte, 1024), all bytes zero.
InitUdp ==
    /\ NoRegistryNoStore
    /\ buffer = [i \in 1..BufferLen |-> 0]
    /\ reader = [pc |-> "ReadFromUDP", datagram |-> << >>, copied |-> 0, received |-> 0]
    /\ handlers = << >>
    /\ sent = << >>

\* conn.ReadFromUDP(buffer) takes the next datagram off the socket. (A read
\* that fails logs and continues: no variable changes.)
ReadFromUDP ==
    /\ reader.pc = "ReadFromUDP"
    /\ reader.received < MaxDatagrams
    /\ \E d \in Datagrams :
           reader' = [pc |-> "copy", datagram |-> d, copied |-> 0,
                      received |-> reader.received + 1]
    /\ UNCHANGED <<regVars, histVars, snapshot, clientVars, mutex, storeVars, procVars,
                   buffer, handlers, sent>>

\* ReadFromUDP copies the payload into buffer, one byte after the other; the
\* handler goroutines run meanwhile and nothing orders their reads of buffer
\* with these writes.
CopyByte ==
    /\ reader.pc = "copy"
    /\ LET i == reader.copied + 1
       IN  /\ buffer' = [buffer EXCEPT ![i] = reader.datagram.payload[i]]
           /\ reader' = [reader EXCEPT !.copied = i,
                                       !.pc = IF i = Len(reader.datagram.payload)
                                              THEN "go" ELSE "copy"]
    /\ UNCHANGED <<regVars, histVars, snapshot, clientVars, mutex, storeVars, procVars,
                   handlers, sent>>

\* go handleUDPRequest(conn, addr, buffer[:n]): data is a slice of buffer, not
\* a copy; datagram remembers what was received (history).
GoHandle ==
    /\ reader.pc = "go"
    /\ handlers' = Append(handlers,
                          [addr |-> reader.datagram.addr,
                           n |-> Len(reader.datagram.payload),
                           pc |-> "os.Hostname",
                           requestData |-> << >>,
                           datagram |-> reader.datagram])
    /\ reader' = [reader EXCEPT !.pc = "ReadFromUDP"]
    /\ UNCHANGED <<regVars, histVars, snapshot, clientVars, mutex, storeVars, procVars,
                   buffer, sent>>

\* handleUDPRequest: os.Hostname() succeeds, or fails and the handler returns.
Hostname(h) ==
    /\ handlers[h].pc = "os.Hostname"
    /\ \E ok \in BOOLEAN :
           handlers' = [handlers EXCEPT ![h].pc = IF ok THEN "string(data)" ELSE "returned"]
    /\ UNCHANGED <<regVars, histVars, snapshot, clientVars, mutex, storeVars, procVars,
                   buffer, reader, sent>>

\* string(data): the first n bytes of buffer as they are now.
StringOfData(h) == SubSeq(buffer, 1, handlers[h].n)

\* handleUDPRequest: requestData := string(data).
ConvertData(h) ==
    /\ handlers[h].pc = "string(data)"
    /\ handlers' = [handlers EXCEPT ![h].requestData = StringOfData(h),
                                    ![h].pc = "sendUDPResponse"]
    /\ UNCHANGED <<regVars, histVars, snapshot, clientVars, mutex, storeVars, procVars,
                   buffer, reader, sent>>

\* handleUDPRequest: the response is built and sendUDPResponse writes it to
\* addr, or fails; the handler returns.
SendUDPResponse(h) ==
    /\ handlers[h].pc = "sendUDPResponse"
    /\ handlers' = [handlers EXCEPT ![h].pc = "returned"]
    /\ \E ok \in BOOLEAN :
           sent' = IF ok
                   THEN Append(sent, [addr |-> handlers[h].addr,
                                      RequestData |-> handlers[h].requestData,
                                      datagram |-> handlers[h].datagram])
                   ELSE sent
    /\ UNCHANGED <<regVars, histVars, snapshot, clientVars, mutex, storeVars, procVars,
                   buffer, reader>>

NextUdp ==
    \/ ReadFromUDP
    \/ CopyByte
    \/ GoHandle
    \/ \E h \in DOMAIN handlers : Hostname(h)
    \/ \E h \in DOMAIN handlers : ConvertData(h)
    \/ \E h \in DOMAIN handlers : SendUDPResponse(h)

\* The UDP server: the receive loop and the handler goroutines it starts.
SpecUdp == InitUdp /\ [][NextUdp]_vars

\* ------------------------------------------------------- shared vocabulary

\* The last call was Set(key, _) on a key that was present when it was entered.
SetOnExisting == lastOp.op = "Set" /\ lastOp.key \in DOMAIN prev.keyToValue

\* The last call was Set(key, _) on a key that was absent when it was entered.
SetOnNew == lastOp.op = "Set" /\ lastOp.key \notin DOMAIN prev.keyToValue

\* The last call was Set(key, _) of a new key made while Count() = capacity.
SetAtCapacity == SetOnNew /\ Count(prev) = prev.capacity

\* The keys of order other than key, in the order they have in order.
Others(order, key) == SelectSeq(order, LAMBDA x : x # key)

\* The set of the elements of a sequence.
Range(order) == {order[i] : i \in 1..Len(order)}

\* ------------------------------------------------------------------ claims

\* C1: for every key k present, GetKeyByValue(GetValueByKey(k)) = k, and for
\* every value v present in the reverse map, GetValueByKey(GetKeyByValue(v)) = v:
\* the forward and the reverse map are mutual inverses.
C1_MutualInverses ==
    /\ \A k \in DOMAIN keyToValue :
           GetKeyByValue(PodRegistry, GetValueByKey(PodRegistry, k)[1]) = <<k, TRUE>>
    /\ \A v \in DOMAIN valueToKey :
           GetValueByKey(PodRegistry, GetKeyByValue(PodRegistry, v)[1]) = <<v, TRUE>>

\* C2: no PodID is the forward value of two different PodNames and no PodName
\* is the reverse value of two different PodIDs.
C2_AtMostOneBinding ==
    /\ \A k1, k2 \in DOMAIN keyToValue :
           keyToValue[k1] = keyToValue[k2] => k1 = k2
    /\ \A v1, v2 \in DOMAIN valueToKey :
           valueToKey[v1] = valueToKey[v2] => v1 = v2

\* C3: the forward map, the reverse map and keyOrder all have the same size.
C3_EqualSizes ==
    /\ Cardinality(DOMAIN keyToValue) = Cardinality(DOMAIN valueToKey)
    /\ Cardinality(DOMAIN keyToValue) = Len(keyOrder)

\* C4: Count() never exceeds the capacity the registry was created with,
\* neither as the size of the forward map between two calls nor as the number
\* a Count() call returns.
C4_CountWithinCapacity ==
    /\ Count(PodRegistry) <= capacity
    /\ lastOp.op = "Count" => ret[1] <= capacity

\* C4 witness: a Set of a new key has just run on a full registry, and the
\* registry is still exactly full.
C4_Witness ==
    /\ SetAtCapacity
    /\ capacity >= 2
    /\ Count(PodRegistry) = capacity

\* C5: a Set of a new key on a full registry removes exactly the key at the head
\* of keyOrder and the reverse entry of the value that key held, then binds the
\* new key; every other key keeps its value and Count() stays at the capacity.
C5_EvictsOldestOnly ==
    SetAtCapacity =>
        LET head == prev.keyOrder[1]
            headValue == prev.keyToValue[head]
        IN  /\ DOMAIN keyToValue = ((DOMAIN prev.keyToValue) \ {head}) \cup {lastOp.key}
            /\ head \notin DOMAIN keyToValue
            /\ \A k \in (DOMAIN prev.keyToValue) \ {head} :
                   keyToValue[k] = prev.keyToValue[k]
            /\ keyToValue[lastOp.key] = lastOp.value
            /\ valueToKey[lastOp.value] = lastOp.key
            /\ headValue # lastOp.value => headValue \notin DOMAIN valueToKey
            /\ \A v \in (DOMAIN prev.valueToKey) \ {headValue, lastOp.value} :
                   v \in DOMAIN valueToKey /\ valueToKey[v] = prev.valueToKey[v]
            /\ keyOrder = Append(Tail(prev.keyOrder), lastOp.key)
            /\ Count(PodRegistry) = capacity

\* C5 witness: capacity 3, three keys A, B, C written in that order, then a
\* fourth key D: exactly B, C, D remain.
C5_Witness ==
    /\ SetAtCapacity
    /\ capacity = 3
    /\ Len(prev.keyOrder) = 3
    /\ DOMAIN keyToValue = {prev.keyOrder[2], prev.keyOrder[3], lastOp.key}
    /\ prev.keyOrder[1] \notin DOMAIN keyToValue

\* C6: a Set of a present key moves it to the end of keyOrder and keeps the
\* order of the other keys; hence, when other keys are present, the eviction
\* made by any following Set of a new key on the full registry removes the
\* oldest of the other keys and keeps the refreshed key.
C6_UpdateRefreshes ==
    SetOnExisting =>
        LET others == Others(prev.keyOrder, lastOp.key)
        IN  /\ keyOrder = Append(others, lastOp.key)
            /\ (others # << >> /\ Count(PodRegistry) = capacity) =>
                   \A k2 \in PodName \ DOMAIN keyToValue, v \in PodID :
                       LET after == Set(PodRegistry, k2, v)
                       IN  /\ lastOp.key \in DOMAIN after.keyToValue
                           /\ others[1] \notin DOMAIN after.keyToValue
                           /\ after.keyOrder = Tail(others) \o <<lastOp.key, k2>>

\* C6 witness: capacity 3, keys A, B, C written in that order, and A, the oldest
\* key, has just been written again: B is now the head of keyOrder.
C6_Witness ==
    /\ SetOnExisting
    /\ capacity = 3
    /\ Len(prev.keyOrder) = 3
    /\ prev.keyOrder[1] = lastOp.key
    /\ keyOrder = <<prev.keyOrder[2], prev.keyOrder[3], lastOp.key>>

\* C7: after Set(k, v2) on a key bound to v1 # v2, k maps to v2, v2 maps back
\* to k, v1 has no reverse entry, and Count() is what it was.
C7_UpdateRebinds ==
    (SetOnExisting /\ prev.keyToValue[lastOp.key] # lastOp.value) =>
        /\ GetValueByKey(PodRegistry, lastOp.key) = <<lastOp.value, TRUE>>
        /\ GetKeyByValue(PodRegistry, lastOp.value) = <<lastOp.key, TRUE>>
        /\ GetKeyByValue(PodRegistry, prev.keyToValue[lastOp.key]) = <<ZeroPodName, FALSE>>
        /\ Count(PodRegistry) = Count(prev)

\* C7 witness: such an update has just run on a full registry.
C7_Witness ==
    /\ SetOnExisting
    /\ prev.keyToValue[lastOp.key] # lastOp.value
    /\ Count(prev) = prev.capacity
    /\ capacity >= 2

\* The last call was Set(k2, v) while the key k1 # k2 held v as its forward value.
SetCollidesWith(k1) ==
    /\ lastOp.op = "Set"
    /\ k1 # lastOp.key
    /\ k1 \in DOMAIN prev.keyToValue
    /\ prev.keyToValue[k1] = lastOp.value

\* C8 as stated: after Set(k2, v) while another key k1 holds v, v maps back to
\* k2 and k1 still maps to v.
C8_AsStated ==
    \A k1 \in PodName :
        SetCollidesWith(k1) =>
            /\ GetKeyByValue(PodRegistry, lastOp.value) = <<lastOp.key, TRUE>>
            /\ GetValueByKey(PodRegistry, k1) = <<lastOp.value, TRUE>>

\* C8 amended: after Set(k2, v) while another key k1 holds v, v maps back to k2,
\* and k1 still maps to v unless k1 is the key this Set evicted (k2 new, the
\* registry full, k1 at the head of keyOrder), in which case k1 is gone.
C8_CollisionKeepsForward ==
    \A k1 \in PodName :
        SetCollidesWith(k1) =>
            /\ GetKeyByValue(PodRegistry, lastOp.value) = <<lastOp.key, TRUE>>
            /\ IF SetAtCapacity /\ prev.keyOrder[1] = k1
               THEN GetValueByKey(PodRegistry, k1) = <<ZeroPodID, FALSE>>
               ELSE GetValueByKey(PodRegistry, k1) = <<lastOp.value, TRUE>>

\* C8 witness: a colliding Set has run and the other key still holds the value,
\* so two keys map to one value.
C8_Witness ==
    \E k1 \in PodName :
        /\ SetCollidesWith(k1)
        /\ prev.valueToKey[lastOp.value] = k1
        /\ k1 \in DOMAIN keyToValue
        /\ keyToValue[k1] = keyToValue[lastOp.key]
        /\ valueToKey[lastOp.value] = lastOp.key

\* C9: Delete(k) of a present key removes k from the forward map, the value k
\* held from the reverse map and k from keyOrder (the other keys keep their
\* order); GetValueByKey(k) then finds nothing and Count() is one less.
C9_DeleteRemoves ==
    (lastOp.op = "Delete" /\ lastOp.key \in DOMAIN prev.keyToValue) =>
        /\ lastOp.key \notin DOMAIN keyToValue
        /\ prev.keyToValue[lastOp.key] \notin DOMAIN valueToKey
        /\ lastOp.key \notin Range(keyOrder)
        /\ keyOrder = Others(prev.keyOrder, lastOp.key)
        /\ GetValueByKey(PodRegistry, lastOp.key) = <<ZeroPodID, FALSE>>
        /\ Count(PodRegistry) = Count(prev) - 1

\* C9 witness: a key in the middle of keyOrder has just been deleted.
C9_Witness ==
    /\ lastOp.op = "Delete"
    /\ Len(prev.keyOrder) = 3
    /\ prev.keyOrder[2] = lastOp.key
    /\ Count(PodRegistry) = 2

\* C10: Delete(k) of an absent key changes neither map, nor keyOrder, nor
\* Count(); and deleting any key twice gives the state deleting it once gives.
C10_DeleteAbsentNoOp ==
    /\ (lastOp.op = "Delete" /\ lastOp.key \notin DOMAIN prev.keyToValue) =>
           /\ PodRegistry = prev
           /\ Count(PodRegistry) = Count(prev)
    /\ \A k \in PodName :
           Delete(Delete(PodRegistry, k), k) = Delete(PodRegistry, k)

\* C10 witness: an absent key has just been deleted from a non-empty registry.
C10_Witness ==
    /\ lastOp.op = "Delete"
    /\ lastOp.key \notin DOMAIN prev.keyToValue
    /\ Count(PodRegistry) >= 2

\* C11: a read (GetValueByKey, GetKeyByValue, Count, GetAll) leaves the forward
\* map, the reverse map and keyOrder as they were, so the key a following Set
\* of a new key would evict is the same before and after the read.
C11_ReadsChangeNothing ==
    lastOp.op \in ReadOps =>
        /\ keyToValue = prev.keyToValue
        /\ valueToKey = prev.valueToKey
        /\ keyOrder = prev.keyOrder
        /\ \A k2 \in PodName \ DOMAIN keyToValue, v \in PodID :
               DOMAIN Set(PodRegistry, k2, v).keyToValue = DOMAIN Set(prev, k2, v).keyToValue

\* C11 witness: on a full registry of three keys the oldest key has just been
\* looked up, and it is still the head of keyOrder.
C11_Witness ==
    /\ lastOp.op = "GetValueByKey"
    /\ Len(keyOrder) = 3
    /\ capacity = 3
    /\ lastOp.key = keyOrder[1]
    /\ ret = <<keyToValue[lastOp.key], TRUE>>

\* C12: a key that was present before a call and is absent after it was either
\* the argument of a Delete, or the head of keyOrder when a Set of a different,
\* new key ran on a full registry; no other call removes a key.
C12_RemovalOnlyByDeleteOrEviction ==
    \A k \in (DOMAIN prev.keyToValue) \ DOMAIN keyToValue :
        \/ lastOp.op = "Delete" /\ lastOp.key = k
        \/ /\ SetAtCapacity
           /\ lastOp.key # k
           /\ prev.keyOrder[1] = k

\* C12 witness: a Set on a present key has run on a full registry of three keys
\* and all three keys are still present.
C12_Witness ==
    /\ SetOnExisting
    /\ Count(prev) = 3
    /\ capacity = 3
    /\ DOMAIN keyToValue = DOMAIN prev.keyToValue

\* Goroutine p is inside the critical section of a registry write / read.
InRegWrite(p) ==
    pc[p] \in {"Set.80", "Set.84", "Set.85", "Set.86", "Set.88", "Set.89", "Set.92",
               "Set.98", "Set.99", "Set.100", "deleteInternal.114", "deleteInternal.121",
               "deleteInternal.124", "deleteInternal.127", "pr.Unlock"}
InRegRead(p) == pc[p] \in {"pr.read", "pr.RUnlock"}

\* Goroutine p is inside the critical section of a store write / read.
InStoreWrite(p) ==
    pc[p] \in {"AddPod.249", "AddPod.250", "AddPod.252", "DeletePod.260",
               "DeletePod.261", "DeletePod.262", "ps.Unlock"}
InStoreRead(p) == pc[p] \in {"ps.read", "ps.RUnlock"}

\* C13 as stated: a registry is never usable with a capacity that is not
\* positive, and no goroutine is ever inside Set on such a registry.
C13_NonPositiveCapacityRejected ==
    /\ status = "ready" => capacity > 0
    /\ \A p \in Procs : (call[p].op = "Set" /\ InRegWrite(p)) => capacity > 0

\* The last step was a change the caller made to the map GetAll returned.
CallerChangedMap == lastOp.op \in {"allData[key] = value", "delete(allData, key)"}

\* C14: the map GetAll returns equals the forward map at the call; a change the
\* caller makes to that map leaves every field of the registry, and with it
\* every later result, as it was; and a Set or Delete on the registry leaves
\* the contents of that map as they were.
C14_SnapshotIndependent ==
    [][ /\ lastOp'.op = "GetAll" => Entries(snapshot)' = keyToValue
        /\ CallerChangedMap' =>
               /\ PodRegistry' = PodRegistry
               /\ \A key \in PodName :
                      GetValueByKey(PodRegistry, key)' = GetValueByKey(PodRegistry, key)
               /\ GetAll(PodRegistry)' = GetAll(PodRegistry)
        /\ lastOp'.op \in {"Set", "Delete"} => Entries(snapshot)' = Entries(snapshot)
      ]_vars

\* C14 witness: the caller holds a returned map in which it has stored an entry
\* the registry lacks, and the registry has since deleted a key the map holds.
C14_Witness ==
    /\ snapshot.object = "result"
    /\ lastOp.op = "Delete"
    /\ lastOp.key \in DOMAIN prev.keyToValue
    /\ lastOp.key \in DOMAIN Entries(snapshot)
    /\ \E key \in DOMAIN Entries(snapshot) :
           key # lastOp.key /\ key \notin DOMAIN prev.keyToValue

\* A pod with these labels matches the selector as the claim defines it: the
\* labels contain every key of the selector, with exactly the selector's value.
LabelsContain(labels, selector) ==
    \A key \in DOMAIN selector : key \in DOMAIN labels /\ labels[key] = selector[key]

\* C20 as stated: while a goroutine is inside GetIPWithLabelSelector, every pod
\* of the store matches the selector of the call exactly when its labels
\* contain every pair of the selector, and the call returns one address pair
\* for each such pod.
C20_MatchesIffLabelsContain ==
    \A p \in Procs :
        (call[p].op = "GetIPWithLabelSelector" /\ InStoreRead(p)) =>
            /\ \A pod \in StorePods(data) :
                   matchesSelector(data[pod[1]][pod[2]].Labels, call[p].selector)
                       <=> LabelsContain(data[pod[1]][pod[2]].Labels, call[p].selector)
            /\ pc[p] = "ps.RUnlock" =>
                   Len(returned[p]) =
                       Cardinality({pod \in StorePods(data) :
                           LabelsContain(data[pod[1]][pod[2]].Labels, call[p].selector)})

\* C15: while a goroutine is inside a write of an instance, no other goroutine
\* is inside a write or a read of that instance; and a read is never kept out
\* by another read: with a reader inside and no writer blocked, RLock returns.
C15_WritersExclude ==
    \A p, q \in Procs :
        p # q =>
            /\ InRegWrite(p) => ~(InRegWrite(q) \/ InRegRead(q))
            /\ InStoreWrite(p) => ~(InStoreWrite(q) \/ InStoreRead(q))
            /\ (InRegRead(p) /\ pc[q] = "pr.RLock" /\ ~RegWriterBlocked)
                   => ENABLED RegRLock(q)
            /\ (InStoreRead(p) /\ pc[q] = "ps.RLock" /\ ~StoreWriterBlocked)
                   => ENABLED StoreRLock(q)

\* C15 witness: two goroutines are inside registry reads at the same time.
C15_Witness ==
    \E p, q \in Procs : p # q /\ InRegRead(p) /\ InRegRead(q)

\* C16: what a registry read returns is the result of that read on the
\* registry as the last whole write left it, and every such registry is the
\* one Set or Delete makes as a whole from the registry before it.
C16_ReadsSeeWholeWrites ==
    /\ \A p \in Procs :
           pc[p] = "pr.RUnlock" => returned[p] = ReadResult(call[p], committed.now)
    /\ committed.by.op = "Set" =>
           committed.now = Set(committed.before, committed.by.key, committed.by.value)
    /\ committed.by.op = "Delete" =>
           committed.now = Delete(committed.before, committed.by.key)

\* C16 witness: a Set has replaced the forward entry of its key and not yet
\* moved the reverse entry, while a reader waits in RLock.
C16_Witness ==
    \E w, r \in Procs :
        /\ pc[w] = "Set.86"
        /\ call[w].key \in DOMAIN started.registry.keyToValue
        /\ started.registry.keyToValue[call[w].key] # call[w].value
        /\ keyToValue[call[w].key] = call[w].value
        /\ call[w].value \notin DOMAIN valueToKey
        /\ pc[r] = "pr.RLock"

\* Every goroutine has made one Set, the keys differ pairwise, the registry was
\* empty when they started and all calls have returned.
DisjointSetsDone ==
    /\ \A p \in Procs : call[p].op = "Set" /\ pc[p] = "done"
    /\ \A p, q \in Procs : p # q => call[p].key # call[q].key
    /\ started.registry.keyToValue = EmptyMap

\* C17 as stated: N disjoint concurrent Sets on an empty registry leave
\* Count() = N.
C17_AsStated == DisjointSetsDone => Count(PodRegistry) = NumProcs

\* C17 amended: N disjoint concurrent Sets on an empty registry leave
\* Count() = N when N is at most the capacity, and Count() = capacity otherwise.
C17_CountIsMinOfNAndCapacity ==
    DisjointSetsDone =>
        Count(PodRegistry) = IF NumProcs <= capacity THEN NumProcs ELSE capacity

\* C17 witness: the disjoint Sets are done on a registry they fit in.
C17_Witness == DisjointSetsDone /\ NumProcs <= capacity /\ Count(PodRegistry) = NumProcs

\* Every goroutine has made one AddPod, the (namespace, name) pairs differ
\* pairwise, the store was empty when they started and all calls have returned.
DisjointAddPodsDone ==
    /\ \A p \in Procs : call[p].op = "AddPod" /\ pc[p] = "done"
    /\ \A p, q \in Procs :
           p # q => <<call[p].namespace, call[p].name>> # <<call[q].namespace, call[q].name>>
    /\ started.data = NewPodStore

\* C18: N disjoint concurrent AddPods on an empty store leave exactly N pods,
\* and every slice a query with the empty selector can return has N elements.
C18_DisjointAddPodsAllStored ==
    DisjointAddPodsDone =>
        /\ Cardinality(StorePods(data)) = NumProcs
        /\ \A p \in Procs :
               /\ call[p].namespace \in DOMAIN data
               /\ call[p].name \in DOMAIN data[call[p].namespace]
        /\ \A slice \in GetIPWithLabelSelector(data, EmptyMap) : Len(slice) = NumProcs

\* C18 witness: the disjoint AddPods are done, two of them in one namespace.
C18_Witness ==
    /\ DisjointAddPodsDone
    /\ \E p, q \in Procs : p # q /\ call[p].namespace = call[q].namespace
    /\ GetIPWithLabelSelector(data, EmptyMap) # {}

\* C19: under a fair scheduler every call returns, and whenever no goroutine
\* is inside a critical section both mutexes are free.
C19_EveryCallReturns ==
    /\ \A p \in Procs : <>(pc[p] = "done")
    /\ [](( \A p \in Procs : ~(InRegWrite(p) \/ InRegRead(p)) ) => mutex = NewRWMutex)
    /\ [](( \A p \in Procs : ~(InStoreWrite(p) \/ InStoreRead(p)) ) => psMutex = NewRWMutex)

\* C19 witness: every call has returned, the last write of the registry ran on
\* a registry an earlier write had changed, and both mutexes are free.
C19_Witness ==
    /\ \A p \in Procs : pc[p] = "done"
    /\ committed.by.op \in {"Set", "Delete"}
    /\ committed.before # started.registry
    /\ mutex = NewRWMutex
    /\ psMutex = NewRWMutex

\* The elements of order that are keys of the forward map m, in their order.
Surviving(order, m) == SelectSeq(order, LAMBDA x : x \in DOMAIN m)

\* C28: keyOrder holds exactly the keys of the forward map, each once, oldest
\* Set first: a Set puts its key last and a Delete or an eviction takes a key
\* out, and neither changes the order of the other keys; and whenever the next
\* new key would be evicted for, keyOrder is not empty and its head is a key of
\* the forward map.
C28_KeyOrderIsWriteOrder ==
    /\ Range(keyOrder) = DOMAIN keyToValue
    /\ Len(keyOrder) = Cardinality(DOMAIN keyToValue)
    /\ lastOp.op = "Set" =>
           keyOrder = Append(Others(Surviving(prev.keyOrder, keyToValue), lastOp.key),
                             lastOp.key)
    /\ lastOp.op = "Delete" => keyOrder = Surviving(prev.keyOrder, keyToValue)
    /\ Count(PodRegistry) >= capacity =>
           keyOrder # << >> /\ keyOrder[1] \in DOMAIN keyToValue

\* C28 witness: a Delete took the middle one of three keys out and the other
\* two kept their order.
C28_Witness ==
    /\ lastOp.op = "Delete"
    /\ Len(prev.keyOrder) = 3
    /\ prev.keyOrder[2] = lastOp.key
    /\ keyOrder = <<prev.keyOrder[1], prev.keyOrder[3]>>

\* C29 as stated: a Delete(k) or a Set(k, v) of a present key k leaves the
\* forward lookup of every other key as it was, and the reverse lookup of every
\* value other than v that was bound to a key other than k.
C29_OtherLookupsUnchanged ==
    (lastOp.op = "Delete" \/ SetOnExisting) =>
        /\ \A k2 \in PodName \ {lastOp.key} :
               GetValueByKey(PodRegistry, k2) = GetValueByKey(prev, k2)
        /\ \A w \in (DOMAIN prev.valueToKey) \ {lastOp.value} :
               prev.valueToKey[w] # lastOp.key =>
                   GetKeyByValue(PodRegistry, w) = GetKeyByValue(prev, w)

\* C27 as stated: the data field of every response the server has sent is the
\* payload of the datagram that response answers, sent to its sender.
C27_EchoesOwnDatagram ==
    \A i \in DOMAIN sent :
        /\ sent[i].RequestData = sent[i].datagram.payload
        /\ sent[i].addr = sent[i].datagram.addr

\* The last call was GetIPWithLabelSelector; ret is the slice it returned.
QueryDone == lastOp.op = "GetIPWithLabelSelector"

\* The address pair GetIPWithLabelSelector returns for a stored pod.
IpInfoOf(d, pod) == IpInfo(d[pod[1]][pod[2]].IPv4, d[pod[1]][pod[2]].IPv6)

\* The stored pods whose labels contain every pair of the selector.
PodsContaining(d, selector) ==
    {pod \in StorePods(d) : LabelsContain(d[pod[1]][pod[2]].Labels, selector)}

\* C21 as stated: the slice GetIPWithLabelSelector returns holds every address
\* pair as often as there are stored pods, in any namespace, that have that
\* pair and whose labels contain every pair of the selector; so its length is
\* the number of those pods.
C21_OnePerMatchingPod ==
    QueryDone =>
        LET matching == PodsContaining(data, lastOp.selector)
        IN  /\ Len(ret) = Cardinality(matching)
            /\ \A x \in {IpInfoOf(data, pod) : pod \in StorePods(data)} \cup Range(ret) :
                   Cardinality({i \in DOMAIN ret : ret[i] = x})
                       = Cardinality({pod \in matching : IpInfoOf(data, pod) = x})

\* The sort key of a returned element: its IPv4 field parsed and rendered.
SortKey(x) == ParseIPString(x.IPv4)

\* C22: the returned slice is in non-decreasing order of the sort keys, every
\* IPv4 field that is empty or does not parse has the one key "<nil>", and the
\* elements with that key are next to one another.
C22_SortedByRenderedIPv4 ==
    QueryDone =>
        /\ \A i, j \in DOMAIN ret :
               i < j => (SortKey(ret[i]) = SortKey(ret[j])
                          \/ StringLess(SortKey(ret[i]), SortKey(ret[j])))
        /\ \A i \in DOMAIN ret :
               ret[i].IPv4 \in {"", "not-an-ip"} => SortKey(ret[i]) = "<nil>"
        /\ \A i, j, k \in DOMAIN ret :
               (i < k /\ k < j /\ SortKey(ret[i]) = "<nil>" /\ SortKey(ret[j]) = "<nil>")
                   => SortKey(ret[k]) = "<nil>"

\* C22 witness: a query returned three elements, one with an address and two
\* without a parseable one, an empty and an unparsable IPv4 field.
C22_Witness ==
    /\ QueryDone
    /\ Len(ret) = 3
    /\ SortKey(ret[1]) # "<nil>"
    /\ {ret[2].IPv4, ret[3].IPv4} = {"", "not-an-ip"}

\* The last call was AddPod; the pod it was called for.
AddPodDone == lastOp.op = "AddPod"
LastPod == <<lastOp.namespace, lastOp.name>>

\* C23: after AddPod the store holds at (namespace, name) the labels and the
\* addresses of the call, whether or not the pair was stored before; every
\* other pod stored before is stored still, with the same PodInfo, and no
\* other pod has appeared.
C23_AddPodStoresOnlyItsPod ==
    AddPodDone =>
        /\ LastPod \in StorePods(data)
        /\ data[lastOp.namespace][lastOp.name]
               = PodInfo(lastOp.labels, lastOp.ipv4, lastOp.ipv6)
        /\ StorePods(data) = StorePods(prev) \cup {LastPod}
        /\ \A pod \in StorePods(prev) \ {LastPod} :
               data[pod[1]][pod[2]] = prev[pod[1]][pod[2]]

\* C23 witness: AddPod overwrote a stored pod with other labels and addresses
\* while another pod of the same namespace and a pod of another namespace
\* were stored.
C23_Witness ==
    /\ AddPodDone
    /\ LastPod \in StorePods(prev)
    /\ prev[lastOp.namespace][lastOp.name] # data[lastOp.namespace][lastOp.name]
    /\ \E pod \in StorePods(data) : pod[1] = lastOp.namespace /\ pod[2] # lastOp.name
    /\ \E pod \in StorePods(data) : pod[1] # lastOp.namespace

\* The last call was DeletePod.
DeletePodDone == lastOp.op = "DeletePod"

\* C24: after DeletePod the pod of the call is not stored, every other pod
\* stored before is stored still with the same PodInfo, and when the pod of the
\* call was not stored (its name or its namespace absent) the store is as it
\* was.
C24_DeletePodRemovesOnlyItsPod ==
    DeletePodDone =>
        /\ StorePods(data) = StorePods(prev) \ {LastPod}
        /\ \A pod \in StorePods(data) : data[pod[1]][pod[2]] = prev[pod[1]][pod[2]]
        /\ LastPod \notin StorePods(prev) => data = prev

\* C24 witness: DeletePod removed a pod whose name is stored in another
\* namespace too, next to another pod of its own namespace.
C24_Witness ==
    /\ DeletePodDone
    /\ LastPod \in StorePods(prev)
    /\ \E pod \in StorePods(data) : pod[1] # lastOp.namespace /\ pod[2] = lastOp.name
    /\ \E pod \in StorePods(data) : pod[1] = lastOp.namespace

\* C25: between operations no namespace of the store has an empty inner map;
\* the DeletePod of the last pod of a namespace removes the namespace.
C25_NoEmptyNamespace ==
    /\ \A ns \in DOMAIN data : DOMAIN data[ns] # {}
    /\ (DeletePodDone /\ lastOp.namespace \in DOMAIN prev
            /\ DOMAIN prev[lastOp.namespace] = {lastOp.name})
           => lastOp.namespace \notin DOMAIN data

\* C25 witness: DeletePod removed the only pod of a namespace while another
\* namespace holds a pod.
C25_Witness ==
    /\ DeletePodDone
    /\ lastOp.namespace \in DOMAIN prev
    /\ DOMAIN prev[lastOp.namespace] = {lastOp.name}
    /\ DOMAIN data # {}

\* C26 as stated: a write of the caller to the labels map it passed to AddPod
\* changes neither the stored PodInfo of any pod nor what any query returns.
C26_StoredLabelsNotAliased ==
    lastOp.op = "caller writes labels" =>
        /\ data = prev
        /\ \A selector \in Selectors :
               GetIPWithLabelSelector(data, selector) = GetIPWithLabelSelector(prev, selector)

\* C30 as stated: a second GetIPWithLabelSelector with the same selector on the
\* unchanged store can return only the slice the first call returned.
C30_QueryDeterministic ==
    QueryDone => GetIPWithLabelSelector(data, lastOp.selector) = {ret}

====
